---- MODULE Spec2Model ----
(***************************************************************************)
(* Model of llm_fallbackJS: the fallback router LLMClient (src/client.ts)  *)
(* over the LLMProvider contract (src/providers.ts).                       *)
(*                                                                         *)
(* JavaScript arrays are objects: `this.providers` is a reference, so the  *)
(* model keeps a heap of arrays and the router holds an index into it.     *)
(* An async generate call runs atomically from one `await` to the next, so *)
(* one action covers the synchronous part of the loop up to the next       *)
(* suspension.  Each call keeps a log of the provider methods it invoked   *)
(* (the instrumentation a spying provider would record).                   *)
(***************************************************************************)
EXTENDS Naturals, Sequences, FiniteSets

\* ---------------------------------------------------------------- bounds
MaxLen == 2
MaxMut == 1

\* ------------------------------------------------------------- universe
\* The four provider instances the default constructor creates.
Providers == {"OpenRouterProvider", "HuggingFaceProvider", "NvidiaProvider", "GeminiProvider"}

DefaultProviders == <<"OpenRouterProvider", "HuggingFaceProvider", "NvidiaProvider", "GeminiProvider">>

\* The provider instances the calling code builds itself and passes in.
CallerProviders == {"OpenRouterProvider", "HuggingFaceProvider", "NvidiaProvider"}

\* What each instance does in the environment under study: no OpenRouter key
\* is configured, the HuggingFace backend fails, the other two backends
\* answer.  Provider lists range over the sequences of these instances, so
\* every sequence of behaviours occurs.
Behaviour ==
  [p \in Providers |->
     CASE p = "OpenRouterProvider" -> "unavailable"
       [] p = "HuggingFaceProvider" -> "fails"
       [] OTHER -> "succeeds"]

\* Two flows of the application call generate on the same router; the calls
\* are numbered in the order they start.
Calls == {1, 2}

RECURSIVE SeqsUpTo(_, _)
SeqsUpTo(S, n) ==
  IF n = 0 THEN {<<>>}
  ELSE LET shorter == SeqsUpTo(S, n - 1)
       IN shorter \cup {Append(s, x) : s \in {t \in shorter : Len(t) = n - 1}, x \in S}

Range(s) == {s[i] : i \in DOMAIN s}

\* Arrays a caller can build and hand to the router.
\* (A caller lists each instance once; addProvider and push can repeat one.)
ArgLists == {s \in SeqsUpTo(CallerProviders, MaxLen) : Cardinality(Range(s)) = Len(s)}

VARIABLES
  heap,        \* heap[r]: content of array object r
  callerRefs,  \* array objects the calling code holds a reference to
  providers,   \* LLMClient.providers: reference to an array object
  calls,       \* per generate call: position, log, outcome
  adds,        \* history: one record per addProvider performed
  lastSet,     \* history: argument of the last setProviders, while untouched
  nmut,        \* history: number of list mutations performed so far
  adapter      \* one generate call made directly on a provider adapter

vars == <<heap, callerRefs, providers, calls, adds, lastSet, nmut, adapter>>

\* -------------------------------------------------- provider contract
isAvailable(p) == Behaviour[p] # "unavailable"

\* The text provider p resolves with.
Result(p) == <<"text", p>>

\* The error provider p rejects with.
ProviderError(p) == [name |-> "Error", message |-> <<"provider error", p>>]

\* provider.generate settles with a value iff the provider is configured
\* and its backend call succeeds; an unconfigured adapter rejects.
GenerateSucceeds(p) == Behaviour[p] = "succeeds"

\* ------------------------------------------------------- exceptions.ts
\* Variant: the constructor forgets `this.name = 'AllProvidersFailedError'`.
AllProvidersFailedErrorUnnamed(message) ==
  [name |-> "Error", message |-> message]

AllProvidersFailedError(message) ==
  [name |-> "AllProvidersFailedError", message |-> message]

NoOutcome == [kind |-> "none"]
Returned(v) == [kind |-> "return", value |-> v]
Thrown(e) == [kind |-> "throw", error |-> e]

\* ---------------------------------------------------- instrumentation
Ev(op, i, p) == [op |-> op, idx |-> i, prov |-> p]

NoList == <<"no list">>

\* No setProviders yet, or the list was mutated since the last one.
NoSet == [arg |-> NoList, prev |-> NoList, pending |-> [c \in Calls |-> 0]]

\* No direct call on an adapter is being followed.
NoAdapter == [pc |-> "none"]

IdleCall ==
  [pc |-> "idle", ref |-> 0, idx |-> 0, log |-> <<>>, outcome |-> NoOutcome,
   startList |-> NoList, endList |-> NoList, setArg |-> NoList,
   setPrev |-> NoList, inflight |-> {}]

\* ------------------------------------------------- LLMClient.generate
\* The for-of loop from array index i on, up to the next await or the throw.
\* The iterator reads the array's live length on every step.
\* Variant: an unavailable entry also skips the entry after it.
RECURSIVE LoopSkipsTwo(_, _, _)
LoopSkipsTwo(call, arr, i) ==
  IF i > Len(arr)
  THEN [call EXCEPT !.pc = "threw", !.idx = i,
                    !.outcome = Thrown(AllProvidersFailedError("All LLM providers failed")),
                    !.endList = arr]
  ELSE LET p == arr[i]
           checked == [call EXCEPT !.log = Append(@, Ev("isAvailable", i, p))]
       IN IF ~isAvailable(p)
          THEN LoopSkipsTwo(checked, arr, i + 2)
          ELSE [checked EXCEPT !.pc = "awaiting", !.idx = i,
                               !.log = Append(@, Ev("generate", i, p))]

\* Variant: the loop ends one entry early (i >= length).
RECURSIVE LoopStopsEarly(_, _, _)
LoopStopsEarly(call, arr, i) ==
  IF i >= Len(arr)
  THEN [call EXCEPT !.pc = "threw", !.idx = i,
                    !.outcome = Thrown(AllProvidersFailedError("All LLM providers failed")),
                    !.endList = arr]
  ELSE LET p == arr[i]
           checked == [call EXCEPT !.log = Append(@, Ev("isAvailable", i, p))]
       IN IF ~isAvailable(p)
          THEN LoopStopsEarly(checked, arr, i + 1)
          ELSE [checked EXCEPT !.pc = "awaiting", !.idx = i,
                               !.log = Append(@, Ev("generate", i, p))]

\* Variant: the `if (!provider.isAvailable()) continue;` line is missing.
LoopNoGate(call, arr, i) ==
  IF i > Len(arr)
  THEN [call EXCEPT !.pc = "threw", !.idx = i,
                    !.outcome = Thrown(AllProvidersFailedError("All LLM providers failed")),
                    !.endList = arr]
  ELSE [call EXCEPT !.pc = "awaiting", !.idx = i,
                    !.log = Append(@, Ev("generate", i, arr[i]))]

\* Variant: the provider call is not awaited before the next entry is tried
\* (two attempts race).
RECURSIVE LoopRaces(_, _, _)
LoopRaces(call, arr, i) ==
  IF i > Len(arr)
  THEN [call EXCEPT !.pc = "threw", !.idx = i,
                    !.outcome = Thrown(AllProvidersFailedError("All LLM providers failed")),
                    !.endList = arr]
  ELSE LET p == arr[i]
           checked == [call EXCEPT !.log = Append(@, Ev("isAvailable", i, p))]
           first == [checked EXCEPT !.pc = "awaiting", !.idx = i,
                                    !.log = Append(@, Ev("generate", i, p)),
                                    !.inflight = @ \cup {i}]
       IN IF ~isAvailable(p)
          THEN LoopRaces(checked, arr, i + 1)
          ELSE IF i + 1 <= Len(arr) /\ isAvailable(arr[i + 1])
               THEN [first EXCEPT !.log = @ \o <<Ev("isAvailable", i + 1, arr[i + 1]),
                                                 Ev("generate", i + 1, arr[i + 1])>>,
                                  !.inflight = @ \cup {i + 1}]
               ELSE first

\* call.inflight: the positions whose provider.generate promise is pending.
RECURSIVE Loop(_, _, _)
Loop(call, arr, i) ==
  IF i > Len(arr)
  THEN [call EXCEPT !.pc = "threw", !.idx = i,
                    !.outcome = Thrown(AllProvidersFailedError("All LLM providers failed")),
                    !.endList = arr]
  ELSE LET p == arr[i]
           checked == [call EXCEPT !.log = Append(@, Ev("isAvailable", i, p))]
       IN IF ~isAvailable(p)
          THEN Loop(checked, arr, i + 1)
          ELSE [checked EXCEPT !.pc = "awaiting", !.idx = i,
                               !.log = Append(@, Ev("generate", i, p)),
                               !.inflight = @ \cup {i}]

\* Variant: a success is remembered but the loop goes on to the later entries.
OnResolveContinues(call, arr) ==
  LET rest == Loop(call, arr, call.idx + 1)
  IN IF rest.pc = "threw"
     THEN [rest EXCEPT !.pc = "returned", !.outcome = Returned(Result(arr[call.idx]))]
     ELSE rest

\* `return result` after the awaited provider.generate resolved.
OnResolve(call, arr) ==
  [call EXCEPT !.pc = "returned", !.outcome = Returned(Result(arr[call.idx])),
               !.endList = arr, !.inflight = @ \ {call.idx}]

\* Variant: a failed provider is tried a second time before moving on.
OnRejectRetries(call, arr) ==
  IF Len(SelectSeq(call.log, LAMBDA e : e.op = "generate" /\ e.idx = call.idx)) < 2
  THEN [call EXCEPT !.log = Append(@, Ev("generate", call.idx, arr[call.idx]))]
  ELSE Loop(call, arr, call.idx + 1)

\* Variant: the catch block rethrows the provider's error.
OnRejectRethrows(call, arr) ==
  [call EXCEPT !.pc = "threw", !.outcome = Thrown(ProviderError(arr[call.idx])),
               !.endList = arr]

\* Variant: the catch block starts the loop over from the first entry.
OnRejectStartsOver(call, arr) ==
  Loop([call EXCEPT !.log = <<>>, !.inflight = {}], arr, 1)

\* The catch block after the awaited provider.generate rejected: log, go on.
OnReject(call, arr) ==
  Loop([call EXCEPT !.inflight = @ \ {call.idx}], arr, call.idx + 1)

\* Variant: round-robin: each call starts one entry further down the list.
GenerateRoundRobin(c) ==
  /\ calls[c].pc = "idle"
  /\ \A d \in Calls : d < c => calls[d].pc # "idle"
  /\ LET arr == heap[providers]
         started == [IdleCall EXCEPT !.ref = providers, !.startList = arr,
                                     !.setArg = lastSet.arg,
                                     !.setPrev = lastSet.prev]
         first == 1 + Cardinality({d \in Calls : calls[d].pc # "idle"})
     IN calls' = [calls EXCEPT ![c] = Loop(started, arr, first)]
  /\ UNCHANGED <<heap, callerRefs, providers, adds, lastSet, nmut, adapter>>

\* Variant: the loop position is kept on the router and shared by the calls,
\* so a call starts behind the entries other pending calls hold.
GenerateSharedCursor(c) ==
  /\ calls[c].pc = "idle"
  /\ \A d \in Calls : d < c => calls[d].pc # "idle"
  /\ LET arr == heap[providers]
         started == [IdleCall EXCEPT !.ref = providers, !.startList = arr,
                                     !.setArg = lastSet.arg,
                                     !.setPrev = lastSet.prev]
         first == 1 + Cardinality({d \in Calls : calls[d].pc = "awaiting"})
     IN calls' = [calls EXCEPT ![c] = Loop(started, arr, first)]
  /\ UNCHANGED <<heap, callerRefs, providers, adds, lastSet, nmut, adapter>>

Generate(c) ==
  /\ calls[c].pc = "idle"
  /\ \A d \in Calls : d < c => calls[d].pc # "idle"
  /\ LET arr == heap[providers]
         started == [IdleCall EXCEPT !.ref = providers, !.startList = arr,
                                     !.setArg = lastSet.arg,
                                     !.setPrev = lastSet.prev]
     IN calls' = [calls EXCEPT ![c] = Loop(started, arr, 1)]
  /\ UNCHANGED <<heap, callerRefs, providers, adds, lastSet, nmut, adapter>>

ProviderResolves(c) ==
  /\ calls[c].pc = "awaiting"
  /\ GenerateSucceeds(heap[calls[c].ref][calls[c].idx])
  /\ calls' = [calls EXCEPT ![c] = OnResolve(calls[c], heap[calls[c].ref])]
  /\ UNCHANGED <<heap, callerRefs, providers, adds, lastSet, nmut, adapter>>

\* Variant: the loop iterates a copy of the list taken when the call started.
ProviderRejectsSnapshot(c) ==
  /\ calls[c].pc = "awaiting"
  /\ ~GenerateSucceeds(heap[calls[c].ref][calls[c].idx])
  /\ calls' = [calls EXCEPT ![c] = OnReject(calls[c], calls[c].startList)]
  /\ UNCHANGED <<heap, callerRefs, providers, adds, lastSet, nmut, adapter>>

\* Variant: the resumed loop reads this.providers again instead of keeping
\* the array it is iterating.
ProviderRejectsRereads(c) ==
  /\ calls[c].pc = "awaiting"
  /\ ~GenerateSucceeds(heap[calls[c].ref][calls[c].idx])
  /\ calls' = [calls EXCEPT ![c] = OnReject(calls[c], heap[providers])]
  /\ UNCHANGED <<heap, callerRefs, providers, adds, lastSet, nmut, adapter>>

ProviderRejects(c) ==
  /\ calls[c].pc = "awaiting"
  /\ ~GenerateSucceeds(heap[calls[c].ref][calls[c].idx])
  /\ calls' = [calls EXCEPT ![c] = OnReject(calls[c], heap[calls[c].ref])]
  /\ UNCHANGED <<heap, callerRefs, providers, adds, lastSet, nmut, adapter>>

\* ---------------------------------------------- LLMClient.addProvider
\* Variant: the provider is put in front (unshift).
unshift(arr, p) == <<p>> \o arr

push(arr, p) == Append(arr, p)

AddProvider(p) ==
  /\ nmut < MaxMut
  /\ nmut' = nmut + 1
  /\ heap' = [heap EXCEPT ![providers] = push(@, p)]
  /\ adds' = adds \cup {[ref |-> providers, pos |-> Len(heap[providers]) + 1,
                         prov |-> p, prev |-> heap[providers],
                         started |-> {c \in Calls : calls[c].pc # "idle"},
                         suspended |-> {c \in Calls : calls[c].pc = "awaiting"}]}
  /\ lastSet' = NoSet
  /\ UNCHANGED <<callerRefs, providers, calls, adapter>>

\* --------------------------------------------- LLMClient.setProviders
\* `this.providers = providers`: the router keeps the caller's array object.
\* h is the heap holding the argument at reference r.
\* Variant: the new entries are merged after the old ones (concat).
SetProvidersMerges(h, cur, r) ==
  [heap |-> Append(h, h[cur] \o h[r]), providers |-> Len(h) + 1]

\* Variant: an empty argument is ignored (`if (providers.length) ...`).
SetProvidersIgnoresEmpty(h, cur, r) ==
  IF h[r] = <<>> THEN [heap |-> h, providers |-> cur]
  ELSE [heap |-> h, providers |-> r]

SetProvidersEffect(h, cur, r) == [heap |-> h, providers |-> r]

\* The argument is a fresh array literal with content L, or an array object
\* the caller already holds.
SetProviders(r, L) ==
  /\ nmut < MaxMut
  /\ nmut' = nmut + 1
  /\ \/ /\ r = Len(heap) + 1
     \/ /\ r \in callerRefs
        /\ L = heap[r]
  /\ LET h == IF r = Len(heap) + 1 THEN Append(heap, L) ELSE heap
         eff == SetProvidersEffect(h, providers, r)
     IN /\ heap' = eff.heap
        /\ providers' = eff.providers
  /\ callerRefs' = callerRefs \cup {r}
  /\ lastSet' = [arg |-> L, prev |-> heap[providers],
                 pending |-> [c \in Calls |->
                               IF calls[c].pc = "awaiting"
                               THEN Len(calls[c].log) ELSE 0]]
  /\ UNCHANGED <<calls, adds, adapter>>

\* -------------------------------------------------------- calling code
\* The caller appends to an array it holds (possibly one it gave the router).
CallerPush(r, p) ==
  /\ r \in callerRefs
  /\ nmut < MaxMut
  /\ nmut' = nmut + 1
  /\ heap' = [heap EXCEPT ![r] = Append(@, p)]
  /\ lastSet' = IF r = providers THEN NoSet ELSE lastSet
  /\ UNCHANGED <<callerRefs, providers, calls, adds, adapter>>

\* ------------------------------------------ LLMClient.constructor, Init
\* `this.providers = providers || [defaults]`: arg is the caller's array (an
\* empty array is truthy and is kept), or absent, and then the router builds
\* the default array itself.
Init ==
  /\ \E arg \in ArgLists \cup {NoList} :
       /\ heap = <<IF arg = NoList THEN DefaultProviders ELSE arg>>
       /\ callerRefs = IF arg = NoList THEN {} ELSE {1}
  /\ providers = 1
  /\ calls = [c \in Calls |-> IdleCall]
  /\ adds = {}
  /\ lastSet = NoSet
  /\ nmut = 0
  /\ adapter = NoAdapter

Next ==
  \/ \E c \in Calls : Generate(c)
  \/ \E c \in Calls : ProviderResolves(c)
  \/ \E c \in Calls : ProviderRejects(c)
  \/ \E p \in CallerProviders : AddProvider(p)
  \/ \E L \in ArgLists : SetProviders(Len(heap) + 1, L)
  \/ \E r \in callerRefs : SetProviders(r, heap[r])
  \/ \E r \in callerRefs, p \in CallerProviders : CallerPush(r, p)

Spec == Init /\ [][Next]_vars

\* Every provider.generate promise eventually settles: a call suspended at
\* `await provider.generate(...)` is eventually resumed, by the resolution or
\* by the rejection.
FairSpec ==
  Spec /\ \A c \in Calls : WF_vars(ProviderResolves(c) \/ ProviderRejects(c))

\* ======================================================== providers.ts
\* A generate call made directly on one adapter: the api key the adapter was
\* built with, the options passed, the request that reaches the backend and
\* the way the call ends.

MaxText == 2

\* A value that was not supplied (undefined).
Absent == [given |-> FALSE]
Given(v) == [given |-> TRUE, val |-> v]

\* Api keys: none configured, a usable one, the 'invalid-key' sentinel.
Keys == {"", "key", "invalid-key"}

\* Temperatures are in tenths (7 is 0.7).
DefaultTemperature == 7

Temperatures == {Absent, Given(0), Given(3)}
MaxTokens == {Absent, Given(0), Given(50)}
Models == {Absent, Given(""), Given("custom-model")}

Options == [model : Models, temperature : Temperatures, max_tokens : MaxTokens]

\* Text is a sequence of pieces: a letter, a whitespace character, a markup tag.
Pieces == {"a", " ", "<t>"}
Texts == SeqsUpTo(Pieces, MaxText)

\* What the backend answers: content (possibly absent), or an error with
\* the HTTP status it carries (0: a transport error without a response).
Responses ==
  {[type |-> "ok", content |-> c] : c \in {Absent} \cup {Given(t) : t \in Texts}}
    \cup {[type |-> "error", status |-> st] : st \in {0, 401, 429, 500}}

\* `a || b` and `a ?? b` on an optional number or string.
OrNumber(o, d) == IF o.given /\ o.val # 0 THEN o.val ELSE d
OrString(o, d) == IF o.given /\ o.val # "" THEN o.val ELSE d
Nullish(o, d) == IF o.given THEN o.val ELSE d

modelName(kind) ==
  CASE kind = "HuggingFaceProvider" -> "mistralai/Mistral-Nemo-Instruct-2407"
    [] kind = "OpenRouterProvider" -> "mistralai/mistral-7b-instruct:free"
    [] kind = "NvidiaProvider" -> "meta/llama-3.3-70b-instruct"
    [] kind = "GeminiProvider" -> "gemini-1.5-flash"

DefaultMaxTokens(kind) == IF kind = "HuggingFaceProvider" THEN 100 ELSE 1000

\* isAvailable() of each adapter.
AdapterAvailable(kind, key) ==
  IF kind = "OpenRouterProvider" THEN key # "" /\ key # "invalid-key"
  ELSE key # ""

UnconfiguredError(kind) ==
  [name |-> "Error",
   message |-> CASE kind = "HuggingFaceProvider" -> "HuggingFace API key not set"
                 [] kind = "OpenRouterProvider" -> "OpenRouter API key not set"
                 [] kind = "NvidiaProvider" -> "NVIDIA API key not set"
                 [] kind = "GeminiProvider" -> "Gemini API key not set"]

\* The parameters each adapter sends to its backend.
Request(kind, opts) ==
  [model |-> OrString(opts.model, modelName(kind)),
   temperature |-> IF kind = "OpenRouterProvider"
                   THEN Nullish(opts.temperature, DefaultTemperature)
                   ELSE OrNumber(opts.temperature, DefaultTemperature),
   max_tokens |-> IF kind = "OpenRouterProvider"
                  THEN Nullish(opts.max_tokens, DefaultMaxTokens(kind))
                  ELSE OrNumber(opts.max_tokens, DefaultMaxTokens(kind))]

NoRequest == [model |-> "none"]

\* String.prototype.trim
RECURSIVE TrimLeft(_)
TrimLeft(t) == IF t # <<>> /\ Head(t) = " " THEN TrimLeft(Tail(t)) ELSE t

RECURSIVE TrimRight(_)
TrimRight(t) ==
  IF t # <<>> /\ t[Len(t)] = " " THEN TrimRight(SubSeq(t, 1, Len(t) - 1)) ELSE t

Trim(t) == TrimRight(TrimLeft(t))

\* replace(/<[^>]*>/g, '')
StripTags(t) == SelectSeq(t, LAMBDA x : x # "<t>")

\* replace(/\s+/g, ' ')
RECURSIVE CollapseSpaces(_)
CollapseSpaces(t) ==
  IF Len(t) < 2 THEN t
  ELSE IF t[1] = " " /\ t[2] = " " THEN CollapseSpaces(Tail(t))
  ELSE <<t[1]>> \o CollapseSpaces(Tail(t))

Placeholder == <<"No response generated">>

ErrorOf(message) == [name |-> "Error", message |-> message]

\* The end of generate once the backend has answered.
Respond(kind, resp) ==
  CASE kind = "HuggingFaceProvider" ->
         IF resp.type = "error" THEN Thrown(ErrorOf("HuggingFace API error"))
         ELSE LET raw == IF resp.content.given THEN resp.content.val ELSE <<>>
                  text == Trim(CollapseSpaces(StripTags(raw)))
              IN Returned(IF Len(text) > 0 THEN text ELSE Placeholder)
    [] kind = "OpenRouterProvider" ->
         IF resp.type = "error"
         THEN CASE resp.status = 401 ->
                     Thrown(ErrorOf("OpenRouter authentication failed: Invalid API key"))
                [] resp.status = 429 -> Thrown(ErrorOf("OpenRouter rate limit exceeded"))
                [] OTHER -> Thrown(ErrorOf("OpenRouter error"))
         ELSE IF ~resp.content.given \/ resp.content.val = <<>>
              THEN Thrown(ErrorOf("OpenRouter error: No response content received"))
              ELSE Returned(Trim(resp.content.val))
    [] kind = "NvidiaProvider" ->
         IF resp.type = "error" THEN Thrown(ErrorOf("NVIDIA API error"))
         ELSE LET text == IF resp.content.given THEN Trim(resp.content.val) ELSE <<>>
              IN Returned(IF text # <<>> THEN text ELSE Placeholder)
    [] kind = "GeminiProvider" ->
         IF resp.type = "error" THEN Thrown(ErrorOf("Gemini API error"))
         ELSE LET text == IF resp.content.given THEN Trim(resp.content.val) ELSE <<>>
              IN Returned(IF text # <<>> THEN text ELSE Placeholder)

\* Variant: the adapter does not re-check its own availability.
StartGenerateUnchecked(a) ==
  [a EXCEPT !.pc = "remote", !.request = Request(a.kind, a.opts)]

\* generate up to its await: the availability re-check, then the request.
StartGenerate(a) ==
  IF ~AdapterAvailable(a.kind, a.key)
  THEN [a EXCEPT !.pc = "done", !.outcome = Thrown(UnconfiguredError(a.kind))]
  ELSE [a EXCEPT !.pc = "remote", !.request = Request(a.kind, a.opts)]

AdapterGenerate ==
  /\ adapter.pc = "idle"
  /\ adapter' = StartGenerate(adapter)
  /\ UNCHANGED <<heap, callerRefs, providers, calls, adds, lastSet, nmut>>

BackendResponds(resp) ==
  /\ adapter.pc = "remote"
  /\ adapter' = [adapter EXCEPT !.pc = "done", !.response = resp,
                                !.outcome = Respond(adapter.kind, resp)]
  /\ UNCHANGED <<heap, callerRefs, providers, calls, adds, lastSet, nmut>>

NoResponse == [type |-> "none"]

\* An adapter built with some api key, about to be called with some options;
\* the router is the default one and stays idle.
InitAdapters ==
  /\ heap = <<DefaultProviders>>
  /\ callerRefs = {}
  /\ providers = 1
  /\ calls = [c \in Calls |-> IdleCall]
  /\ adds = {}
  /\ lastSet = NoSet
  /\ nmut = 0
  /\ \E kind \in Providers, key \in Keys, opts \in Options :
       adapter = [pc |-> "idle", kind |-> kind, key |-> key, opts |-> opts,
                  request |-> NoRequest, response |-> NoResponse,
                  outcome |-> NoOutcome]

NextAdapters ==
  \/ AdapterGenerate
  \/ \E resp \in Responses : BackendResponds(resp)

SpecAdapters == InitAdapters /\ [][NextAdapters]_vars

\* ============================================================== properties
Done(c) == calls[c].pc \in {"returned", "threw"}

Succeeding(L) == {i \in 1..Len(L) : GenerateSucceeds(L[i])}

Min(S) == CHOOSE x \in S : \A y \in S : x <= y

\* The events of one kind in a call's log, in order.
IsAvailableCalls(c) == SelectSeq(calls[c].log, LAMBDA e : e.op = "isAvailable")
GenerateCalls(c) == SelectSeq(calls[c].log, LAMBDA e : e.op = "generate")

\* The list did not change while call c was running.
ListStable(c) ==
  IF Done(c) THEN calls[c].endList = calls[c].startList
  ELSE heap[calls[c].ref] = calls[c].startList

TheError == AllProvidersFailedError("All LLM providers failed")

\* C1: a finished generate call over a list L that did not change during the
\* call returned the result of the lowest-index entry of L that is available
\* and succeeds, that entry is the only one whose generate succeeded, and
\* the call failed iff L has no such entry.
C1_FirstSuccessWins ==
  \A c \in Calls :
    (Done(c) /\ ListStable(c)) =>
      LET L == calls[c].startList
          ok == Succeeding(L)
      IN IF ok = {}
         THEN calls[c].pc = "threw"
         ELSE /\ calls[c].pc = "returned"
              /\ calls[c].outcome = Returned(Result(L[Min(ok)]))
              /\ \A j \in DOMAIN calls[c].log :
                   (calls[c].log[j].op = "generate"
                      /\ GenerateSucceeds(calls[c].log[j].prov))
                   => calls[c].log[j] = Ev("generate", Min(ok), L[Min(ok)])
              /\ \E j \in DOMAIN calls[c].log :
                   calls[c].log[j] = Ev("generate", Min(ok), L[Min(ok)])

\* C1 witness: entry 1 fails, entry 2 succeeds, a later entry would succeed
\* too, and the call returned entry 2's result.
C1_Witness ==
  \E c \in Calls :
    /\ calls[c].pc = "returned"
    /\ ListStable(c)
    /\ Len(calls[c].startList) >= 3
    /\ Behaviour[calls[c].startList[1]] = "fails"
    /\ Succeeding(calls[c].startList) = {2, 3}
    /\ calls[c].outcome = Returned(Result(calls[c].startList[2]))

\* C2: once a provider's generate that succeeds has been invoked, the call
\* invokes nothing more (no isAvailable, no generate of a later entry): that
\* invocation is the last event of the call, and the call returns its result.
C2_ShortCircuit ==
  \A c \in Calls :
    /\ \A j \in DOMAIN calls[c].log :
         (calls[c].log[j].op = "generate" /\ GenerateSucceeds(calls[c].log[j].prov))
         => /\ j = Len(calls[c].log)
            /\ calls[c].pc \in {"awaiting", "returned"}
    /\ calls[c].pc = "returned" =>
         /\ calls[c].log # <<>>
         /\ LET last == calls[c].log[Len(calls[c].log)]
            IN /\ last.op = "generate"
               /\ GenerateSucceeds(last.prov)
               /\ calls[c].outcome = Returned(Result(last.prov))
               /\ \A j \in DOMAIN calls[c].log : calls[c].log[j].idx <= last.idx

\* C2 witness: the first provider succeeded, later entries exist, and only
\* the first entry was consulted.
C2_Witness ==
  \E c \in Calls :
    /\ calls[c].pc = "returned"
    /\ Len(calls[c].endList) >= 2
    /\ calls[c].log = <<Ev("isAvailable", 1, calls[c].endList[1]),
                        Ev("generate", 1, calls[c].endList[1])>>

\* C3: a finished call whose list holds no entry that succeeds failed with
\* AllProvidersFailedError, and a call fails that way only after it checked
\* every entry of the list exactly once, in list order.
C3_Exhaustion ==
  \A c \in Calls :
    /\ (Done(c) /\ Succeeding(calls[c].endList) = {}) => calls[c].pc = "threw"
    /\ calls[c].pc = "threw" =>
         /\ calls[c].outcome = Thrown(TheError)
         /\ IsAvailableCalls(c) =
              [i \in 1..Len(calls[c].endList) |->
                 Ev("isAvailable", i, calls[c].endList[i])]
         /\ Succeeding(calls[c].endList) = {}

\* C3 witness: a failed call on a list with an unavailable and a failing entry.
C3_Witness ==
  \E c \in Calls :
    /\ calls[c].pc = "threw"
    /\ Len(calls[c].endList) >= 2
    /\ \E i, j \in 1..Len(calls[c].endList) :
         /\ Behaviour[calls[c].endList[i]] = "unavailable"
         /\ Behaviour[calls[c].endList[j]] = "fails"

\* The list [A(unavailable), B(fails), C(succeeds)] of the example.
ExampleList == <<"OpenRouterProvider", "HuggingFaceProvider", "NvidiaProvider">>

\* C4: every generate invocation on a provider directly follows an
\* isAvailable invocation on the same entry that returned true; on the
\* example list the call returns the third provider's text, never invokes
\* the first provider's generate and invokes the second's exactly once.
C4_AvailabilityGate ==
  \A c \in Calls :
    /\ \A j \in DOMAIN calls[c].log :
         calls[c].log[j].op = "generate" =>
           /\ j > 1
           /\ calls[c].log[j - 1] =
                Ev("isAvailable", calls[c].log[j].idx, calls[c].log[j].prov)
           /\ isAvailable(calls[c].log[j].prov)
    /\ (Done(c) /\ calls[c].startList = ExampleList /\ ListStable(c)) =>
         /\ calls[c].outcome = Returned(Result("NvidiaProvider"))
         /\ \A j \in DOMAIN calls[c].log :
              ~(calls[c].log[j].op = "generate"
                  /\ calls[c].log[j].prov = "OpenRouterProvider")
         /\ Len(SelectSeq(calls[c].log,
                LAMBDA e : e.op = "generate" /\ e.prov = "HuggingFaceProvider")) = 1

\* C4 witness: a finished call on the example list.
C4_Witness ==
  \E c \in Calls :
    /\ Done(c)
    /\ calls[c].startList = ExampleList
    /\ ListStable(c)

\* C5: within one call a failed provider is not retried: the generate
\* invocations of a call are on strictly increasing list positions (so at
\* most one per entry), every available entry the call reached was invoked
\* exactly once, and after an invocation failed the next entry consulted is
\* the one right after it.
C5_NoRetry ==
  \A c \in Calls :
    LET log == calls[c].log
        gen == GenerateCalls(c)
    IN /\ \A j, k \in DOMAIN gen : j < k => gen[j].idx < gen[k].idx
       /\ \A j \in DOMAIN log :
            (log[j].op = "isAvailable" /\ isAvailable(log[j].prov)) =>
              Len(SelectSeq(log, LAMBDA e : e.op = "generate" /\ e.idx = log[j].idx)) = 1
       /\ \A j \in DOMAIN log :
            (log[j].op = "generate" /\ j < Len(log)) =>
              log[j + 1] = Ev("isAvailable", log[j].idx + 1,
                              heap[calls[c].ref][log[j].idx + 1])

\* C5 witness: a call went past a provider that failed, to a later entry.
C5_Witness ==
  \E c \in Calls :
    \E j \in DOMAIN calls[c].log :
      /\ calls[c].log[j].op = "generate"
      /\ Behaviour[calls[c].log[j].prov] = "fails"
      /\ j < Len(calls[c].log)

\* C6: a finished call either returned the text of a provider of its list
\* whose generate succeeded, or threw AllProvidersFailedError; it never
\* threw a provider's own error.
C6_ProviderErrorsAbsorbed ==
  \A c \in Calls :
    /\ Done(c) =>
         \/ /\ calls[c].pc = "returned"
            /\ \E i \in Succeeding(calls[c].endList) :
                 calls[c].outcome = Returned(Result(calls[c].endList[i]))
         \/ /\ calls[c].pc = "threw"
            /\ calls[c].outcome = Thrown(TheError)
    /\ \A p \in Providers : calls[c].outcome # Thrown(ProviderError(p))
    /\ ~Done(c) => calls[c].outcome = NoOutcome

\* C6 witness: a provider's generate failed in a call that later finished
\* by returning, and in one that finished by throwing.
C6_Witness ==
  \E c, d \in Calls :
    /\ calls[c].pc = "returned"
    /\ calls[d].pc = "threw"
    /\ \E j \in DOMAIN calls[c].log :
         calls[c].log[j].op = "generate" /\ Behaviour[calls[c].log[j].prov] = "fails"
    /\ \E j \in DOMAIN calls[d].log :
         calls[d].log[j].op = "generate" /\ Behaviour[calls[d].log[j].prov] = "fails"

\* The number of providers a call tried: its generate invocations.
Tried(c) == Len(GenerateCalls(c))

\* C7 as stated: the failure carries the count of providers tried, so two
\* failures that are equal were raised after the same number of attempts.
C7_ErrorCarriesCount ==
  \A c, d \in Calls :
    (calls[c].pc = "threw" /\ calls[d].pc = "threw"
       /\ calls[c].outcome = calls[d].outcome)
    => Tried(c) = Tried(d)

\* C7: as amended: the failure of an exhausted call is an
\* AllProvidersFailedError with the fixed message 'All LLM providers failed',
\* whatever the number of providers tried or checked (an empty list
\* included); it carries no count.
C7_GenericError ==
  \A c \in Calls :
    calls[c].pc = "threw" =>
      /\ calls[c].outcome.kind = "throw"
      /\ calls[c].outcome.error.name = "AllProvidersFailedError"
      /\ calls[c].outcome.error.message = "All LLM providers failed"
      /\ DOMAIN calls[c].outcome.error = {"name", "message"}

\* C7 witness: one call failed on an empty list, another after one attempt.
C7_Witness ==
  \E c, d \in Calls :
    /\ calls[c].pc = "threw" /\ calls[c].endList = <<>>
    /\ calls[d].pc = "threw" /\ Tried(d) = 1
    /\ calls[c].outcome = calls[d].outcome

C9_SetProvidersReplaces ==
  \A c \in Calls :
    (calls[c].pc # "idle" /\ calls[c].setArg # NoList) =>
      /\ calls[c].startList = calls[c].setArg
      /\ ListStable(c) =>
           /\ \A j \in DOMAIN calls[c].log :
                /\ calls[c].log[j].idx \in 1..Len(calls[c].setArg)
                /\ calls[c].log[j].prov = calls[c].setArg[calls[c].log[j].idx]
           /\ \A j, k \in DOMAIN calls[c].log :
                j < k => calls[c].log[j].idx <= calls[c].log[k].idx
           /\ calls[c].pc = "threw" =>
                [i \in DOMAIN IsAvailableCalls(c) |-> IsAvailableCalls(c)[i].prov]
                  = calls[c].setArg

\* C9 witness: the list was replaced by a list of two entries that shares
\* no provider with the previous, non-empty list, and a call started
\* afterwards went through the whole new list.
C9_Witness ==
  \E c \in Calls :
    /\ calls[c].pc = "threw"
    /\ Len(calls[c].setArg) = 2
    /\ calls[c].setPrev \notin {NoList, <<>>}
    /\ Range(calls[c].setPrev) \cap Range(calls[c].setArg) = {}

\* C10: a generate call started after setProviders([]) (no mutation since)
\* fails at once with AllProvidersFailedError, having invoked no provider's
\* isAvailable and no provider's generate, whatever list the router held.
C10_EmptyListFailsAtOnce ==
  \A c \in Calls :
    (calls[c].pc # "idle" /\ calls[c].setArg = <<>>) =>
      /\ calls[c].pc = "threw"
      /\ calls[c].log = <<>>
      /\ calls[c].outcome = Thrown(TheError)

\* C10 witness: the router held a list with an entry that succeeds, was
\* given the empty list, and a call started afterwards has failed.
C10_Witness ==
  \E c \in Calls :
    /\ calls[c].pc = "threw"
    /\ calls[c].setArg = <<>>
    /\ Succeeding(calls[c].setPrev) # {}

\* C11 as stated: the router's list is not shared with the calling code: a
\* push by the caller on an array it once passed to the constructor or to
\* setProviders leaves the list the router iterates unchanged, and
\* addProvider leaves every array the caller holds unchanged.
C11_ListNotShared ==
  [][/\ \A r \in callerRefs, p \in CallerProviders :
          CallerPush(r, p) => heap'[providers'] = heap[providers]
     /\ \A p \in CallerProviders :
          AddProvider(p) => \A r \in callerRefs : heap'[r] = heap[r]]_vars

\* C12: the provider attempts of one call are strictly sequential: at most
\* one provider.generate of the call is pending, a call that is not
\* suspended has none pending, and when a later entry is consulted every
\* earlier attempt has settled with a failure and every earlier entry that
\* was not attempted was skipped as unavailable.
C12_SequentialAttempts ==
  \A c \in Calls :
    LET log == calls[c].log
    IN /\ Cardinality(calls[c].inflight) <= 1
       /\ calls[c].pc = "awaiting" <=> calls[c].inflight = {calls[c].idx}
       /\ \A j, k \in DOMAIN log :
            (j < k /\ log[j].idx < log[k].idx) =>
              /\ log[j].idx \notin calls[c].inflight
              /\ log[j].op = "generate" => ~GenerateSucceeds(log[j].prov)
              /\ (log[j].op = "isAvailable" /\ log[j + 1].idx # log[j].idx)
                   => ~isAvailable(log[j].prov)

\* C12 witness: a call is suspended in its second attempt after the first
\* one failed.
C12_Witness ==
  \E c \in Calls :
    /\ calls[c].pc = "awaiting"
    /\ Len(GenerateCalls(c)) = 2
    /\ calls[c].inflight = {GenerateCalls(c)[2].idx}

\* A call run alone on the list L, from its start to its completion.
RECURSIVE Settle(_, _)
Settle(call, L) ==
  IF call.pc # "awaiting" THEN call
  ELSE IF GenerateSucceeds(L[call.idx]) THEN OnResolve(call, L)
  ELSE Settle(OnReject(call, L), L)

RunAlone(L) == Settle(Loop([IdleCall EXCEPT !.startList = L], L, 1), L)

IsPrefix(s, t) == Len(s) <= Len(t) /\ SubSeq(t, 1, Len(s)) = s

\* C13: concurrent generate calls are independent: whatever the
\* interleaving with the other call, a call whose list is not mutated while
\* it runs makes the provider invocations it would make when run alone on
\* that list, in the same order, and finishes with the same outcome; and the
\* calls themselves leave the router's list as it was.
C13_CallsIndependent ==
  /\ \A c \in Calls :
       (calls[c].pc # "idle" /\ ListStable(c)) =>
         LET alone == RunAlone(calls[c].startList)
         IN /\ IsPrefix(calls[c].log, alone.log)
            /\ Done(c) => /\ calls[c].log = alone.log
                          /\ calls[c].outcome = alone.outcome
  /\ nmut = 0 =>
       /\ providers = 1
       /\ Len(heap) = 1
       /\ \A c \in Calls : calls[c].pc # "idle" => calls[c].startList = heap[1]

\* C13 witness: two calls are pending at the same time, each in its second
\* attempt after a first one failed.
C13_Witness ==
  /\ \A c \in Calls : /\ calls[c].pc = "awaiting"
                      /\ Len(GenerateCalls(c)) = 2
                      /\ ListStable(c)
  /\ nmut = 0

\* The entry that served a call: the last invocation of a call that returned.
Served(c) ==
  IF calls[c].pc = "returned" THEN calls[c].log[Len(calls[c].log)]
  ELSE Ev("none", 0, "none")

\* C14: determinism: two finished runs of generate over the same list (not
\* mutated while they ran), under the same provider behaviour, have the same
\* outcome (the same text, or the same failure) and were served by the same
\* entry.
C14_Deterministic ==
  \A c, d \in Calls :
    (Done(c) /\ Done(d) /\ ListStable(c) /\ ListStable(d)
       /\ calls[c].startList = calls[d].startList)
    => /\ calls[c].outcome = calls[d].outcome
       /\ Served(c) = Served(d)

\* C14 witness: two runs over a list in which two entries would succeed
\* after one that does not; both returned.
C14_Witness ==
  \E c, d \in Calls :
    /\ c # d
    /\ calls[c].pc = "returned" /\ calls[d].pc = "returned"
    /\ ListStable(c) /\ ListStable(d)
    /\ calls[c].startList = calls[d].startList
    /\ Cardinality(Succeeding(calls[c].startList)) >= 2
    /\ 1 \notin Succeeding(calls[c].startList)

\* ------------------------------------------------ adapters (providers.ts)
Started == adapter.pc \in {"remote", "done"}

\* C15: for each of the four adapters, a generate call made while
\* isAvailable() is false ends with that adapter's "API key not set" error,
\* and no request was built and no backend response was consumed: the remote
\* call is never issued.
C15_AdapterRechecks ==
  (Started /\ ~AdapterAvailable(adapter.kind, adapter.key))
  => /\ adapter.pc = "done"
     /\ adapter.outcome = Thrown(UnconfiguredError(adapter.kind))
     /\ adapter.request = NoRequest
     /\ adapter.response = NoResponse

\* C15 witness: an OpenRouter adapter built with the 'invalid-key' sentinel
\* has been called and has failed.
C15_Witness ==
  /\ adapter.pc = "done"
  /\ adapter.kind = "OpenRouterProvider"
  /\ adapter.key = "invalid-key"
  /\ adapter.outcome.kind = "throw"

\* C16: for every adapter, whenever the backend answered successfully,
\* generate returned (it did not fail) and the text it returned is not empty;
\* in particular empty content is mapped to the placeholder.
C16_EmptyBecomesPlaceholder ==
  (adapter.pc = "done" /\ adapter.response # NoResponse
     /\ adapter.response.type = "ok")
  => /\ adapter.outcome.kind = "return"
     /\ adapter.outcome.value # <<>>

\* C17: for every adapter, each option of the request sent to the backend is
\* the supplied value when one was supplied (temperature 0 and max_tokens 0
\* included) and the provider default only when the option is absent.
C17_OptionsForwarded ==
  (Started /\ adapter.request # NoRequest)
  => /\ adapter.request.model = Nullish(adapter.opts.model, modelName(adapter.kind))
     /\ adapter.request.temperature
          = Nullish(adapter.opts.temperature, DefaultTemperature)
     /\ adapter.request.max_tokens
          = Nullish(adapter.opts.max_tokens, DefaultMaxTokens(adapter.kind))

\* C18: termination: when every provider.generate eventually settles, every
\* generate call that is suspended in a provider call eventually completes
\* (it returns a result or raises AllProvidersFailedError), also when
\* providers are added to its list while it is in flight.
C18_Terminates ==
  \A c \in Calls : (calls[c].pc = "awaiting") ~> Done(c)

\* C18 witness: a call completed after a provider was appended to its list
\* while it ran, and it consulted the appended entry.
C18_Witness ==
  \E c \in Calls, a \in adds :
    /\ Done(c)
    /\ a.ref = calls[c].ref
    /\ a.pos > Len(calls[c].startList)
    /\ \E k \in 1..Len(calls[c].log) : calls[c].log[k].idx = a.pos

\* C19: setProviders(L2) called while a generate call is suspended in a
\* provider call: that call keeps iterating the array it started with (every
\* entry it consults is the entry of that array at that position, and it
\* fails only after the whole of that array, which still begins with the list
\* the call started with), while a call started after the setProviders iterates
\* L2 from its first entry.
C19_ReplacementInFlight ==
  \A c \in Calls :
    /\ lastSet.pending[c] > 0
       => LET own == heap[calls[c].ref]
          IN /\ IsPrefix(calls[c].startList, own)
             /\ \A k \in 1..Len(calls[c].log) :
                  /\ calls[c].log[k].idx <= Len(own)
                  /\ calls[c].log[k].prov = own[calls[c].log[k].idx]
             /\ calls[c].pc = "threw"
                => /\ IsPrefix(calls[c].startList, calls[c].endList)
                   /\ Len(IsAvailableCalls(c)) = Len(calls[c].endList)
    /\ (calls[c].pc # "idle" /\ calls[c].setArg # NoList)
       => /\ calls[c].startList = calls[c].setArg
          /\ calls[c].log # <<>> => calls[c].log[1].prov = calls[c].setArg[1]

\* C19 witness: a call was suspended when the list was replaced by a list
\* with an entry the old one lacks, it went on to later entries of the old
\* array afterwards, and another call was started on the new list.
C19_Witness ==
  \E c, d \in Calls :
    /\ c # d
    /\ lastSet.pending[c] > 0
    /\ calls[c].ref # providers
    /\ Len(calls[c].log) > lastSet.pending[c]
    /\ Range(lastSet.arg) \ Range(lastSet.prev) # {}
    /\ calls[d].pc # "idle"
    /\ calls[d].ref = providers
    /\ calls[d].setArg = lastSet.arg

\* C20: addProvider(P) called while a generate call is suspended in a provider
\* call, on the array that call iterates (no setProviders in between): P sits
\* at a position beyond the length the list had when the call started, and
\* the call cannot raise AllProvidersFailedError without having consulted P
\* there (isAvailable, and generate when P is available); the call has then
\* considered more entries than the list had at its start.
C20_AppendInFlight ==
  \A a \in adds :
    \A c \in a.suspended :
      a.ref = calls[c].ref
      => /\ a.pos > Len(calls[c].startList)
         /\ heap[calls[c].ref][a.pos] = a.prov
         /\ calls[c].pc = "threw"
            => /\ \E k \in 1..Len(calls[c].log) :
                    calls[c].log[k] = Ev("isAvailable", a.pos, a.prov)
               /\ isAvailable(a.prov)
                  => \E k \in 1..Len(calls[c].log) :
                       calls[c].log[k] = Ev("generate", a.pos, a.prov)
               /\ Len(IsAvailableCalls(c)) > Len(calls[c].startList)

\* C20 witness: a call that was suspended when P was appended went on to
\* attempt P and then raised AllProvidersFailedError.
C20_Witness ==
  \E a \in adds :
    \E c \in a.suspended :
      /\ a.ref = calls[c].ref
      /\ calls[c].pc = "threw"
      /\ calls[c].log[Len(calls[c].log)] = Ev("generate", a.pos, a.prov)

====
